---- MODULE Spec2Model ----
(***************************************************************************)
(* Model of drill_converter.py: the CSV extractor (parse_csv,              *)
(* get_all_tags, main) and the filtering logic of the page it generates    *)
(* (init, toggleFilter, clearAllFilters, renderDrills, updateStats).       *)
(*                                                                         *)
(* A string is a sequence of one-character strings; Ord gives the code     *)
(* point that Python's sorted() compares by.                               *)
(***************************************************************************)
EXTENDS Integers, Sequences, FiniteSets, TLC

VARIABLES
    csv_exists,        \* Path(csv_file).exists()
    csv_rows,          \* the rows csv.reader yields, header row first
    pc,                \* position of main / of the page
    idx,               \* position of the reader in csv_rows
    drills,            \* parse_csv's list of drill dicts
    all_tags,          \* get_all_tags' result
    output_file,       \* hockey_drills.html: NoFile or the embedded payload
    stdout,            \* the lines main has printed, without their numbers
    activeFilters,     \* JS Set, in insertion order
    searchTerm,        \* JS searchTerm
    searchBoxValue,    \* searchBox.value
    activeTagEls,      \* the .tag elements that carry class "active"
    gridDisplay,       \* drillGrid.style.display
    noResultsDisplay,  \* noResults.style.display
    gridItems,         \* the drills drillGrid.innerHTML lists
    resultsCount,      \* resultsCount.textContent
    activeFiltersSpan  \* activeFiltersSpan.textContent

vars == <<csv_exists, csv_rows, pc, idx, drills, all_tags, output_file, stdout,
          activeFilters, searchTerm, searchBoxValue, activeTagEls,
          gridDisplay, noResultsDisplay, gridItems, resultsCount,
          activeFiltersSpan>>

pageVars == <<activeFilters, searchTerm, searchBoxValue, activeTagEls,
              gridDisplay, noResultsDisplay, gridItems, resultsCount,
              activeFiltersSpan>>

extractVars == <<csv_exists, csv_rows, idx, drills, all_tags, output_file>>

-----------------------------------------------------------------------------
(* Bounds *)

\* data rows after the header row
MaxRows == 2

\* characters typed into the search box
MaxTermLen == 2

-----------------------------------------------------------------------------
(* Strings *)

Ord(c) ==
    CASE c = " " -> 32
      [] c = "'" -> 39
      [] c = "," -> 44
      [] c = "A" -> 65
      [] c = "B" -> 66
      [] c = "\\" -> 92
      [] c = "a" -> 97
      [] c = "b" -> 98

\* str.strip() removes leading and trailing whitespace
IsSpace(c) == c = " "

RECURSIVE lstrip(_)
lstrip(s) == IF s # <<>> /\ IsSpace(s[1]) THEN lstrip(Tail(s)) ELSE s

RECURSIVE rstrip(_)
rstrip(s) ==
    IF s # <<>> /\ IsSpace(s[Len(s)]) THEN rstrip(SubSeq(s, 1, Len(s) - 1)) ELSE s

strip(s) == rstrip(lstrip(s))

\* str.split(sep): "".split(",") is [""], "a,,b".split(",") is ["a", "", "b"]
RECURSIVE split(_, _)
split(s, sep) ==
    IF \A i \in 1..Len(s) : s[i] # sep
    THEN <<s>>
    ELSE LET i == CHOOSE k \in 1..Len(s) :
                      s[k] = sep /\ \A j \in 1..(k - 1) : s[j] # sep
         IN <<SubSeq(s, 1, i - 1)>> \o split(SubSeq(s, i + 1, Len(s)), sep)

\* Python's str "<": by code point, a proper prefix first
RECURSIVE StrLess(_, _)
StrLess(s, t) ==
    IF t = <<>> THEN FALSE
    ELSE IF s = <<>> THEN TRUE
    ELSE IF Ord(s[1]) < Ord(t[1]) THEN TRUE
    ELSE IF Ord(s[1]) > Ord(t[1]) THEN FALSE
    ELSE StrLess(Tail(s), Tail(t))

\* sorted(list(S)) of a set of strings
RECURSIVE sorted(_)
sorted(S) ==
    IF S = {} THEN <<>>
    ELSE LET m == CHOOSE x \in S : \A y \in S \ {x} : StrLess(x, y)
         IN <<m>> \o sorted(S \ {m})

Elems(seq) == {seq[i] : i \in 1..Len(seq)}

\* [t.strip() for t in text.split(',') if t.strip()]
StripNonEmpty(text) ==
    LET parts == split(text, ",")
        stripped == [i \in 1..Len(parts) |-> strip(parts[i])]
    IN SelectSeq(stripped, LAMBDA p : p # <<>>)

\* String.prototype.toLowerCase
Lower(c) ==
    CASE c = "A" -> "a"
      [] c = "B" -> "b"
      [] OTHER -> c

toLowerCase(s) == [i \in 1..Len(s) |-> Lower(s[i])]

\* String.prototype.includes
includes(s, sub) ==
    \E off \in 0..(Len(s) - Len(sub)) : SubSeq(s, off + 1, off + Len(sub)) = sub

\* Array.prototype.join
RECURSIVE join(_, _)
join(seq, sep) ==
    IF seq = <<>> THEN <<>>
    ELSE IF Len(seq) = 1 THEN seq[1]
    ELSE seq[1] \o sep \o join(Tail(seq), sep)

-----------------------------------------------------------------------------
(* Inputs *)

\* the output file does not exist
NoFile == <<>>

\* a header row that would pass the row test if it were read as data
HeaderRow == << <<"B", "b">>, <<"b">>, <<"B">>, <<"B">>, <<"a">> >>

RowPool ==
    { \* name "Ab", tags need sorting and trimming
      << <<"A", "b">>, <<"b">>, <<"a", ",", " ", "A">>, <<"B", "a">>, <<"a">> >>,
      \* name " b ", duplicate and empty pieces, no sub-category, no link
      << <<" ", "b", " ">>, <<"b">>, <<"A", ",", ",", "A", " ">>, <<>>, <<>> >>,
      \* empty name
      << <<>>, <<"b">>, <<"A">>, <<"a">>, <<"a">> >>,
      \* blank name
      << <<" ">>, <<"b">>, <<"A">>, <<"a">>, <<"a">> >>,
      \* three fields only
      << <<"A", "b">>, <<"b">>, <<"A">> >>,
      \* a blank line
      << >>,
      \* six fields, the same tag in both columns, a tag with a backslash and
      \* a tag with an apostrophe
      << <<"a">>, <<"b">>, <<" ", "B", "\\", "a", " ", ",", "a">>,
         <<"a", ",", "a", "'">>, <<"a">>, <<"b">> >>,
      \* no tags at all
      << <<"B">>, <<"b">>, <<>>, <<" ", ",", " ">>, <<>> >> }

RECURSIVE SeqsUpTo(_, _)
SeqsUpTo(S, n) ==
    IF n = 0 THEN {<<>>}
    ELSE LET shorter == SeqsUpTo(S, n - 1)
         IN shorter \cup {Append(s, x) : s \in {t \in shorter : Len(t) = n - 1}, x \in S}

\* an empty file, or a header row followed by up to MaxRows rows
CsvFiles == {<<>>} \cup {<<HeaderRow>> \o rows : rows \in SeqsUpTo(RowPool, MaxRows)}

TermAlphabet == {"A", "b"}

SearchInputs == SeqsUpTo(TermAlphabet, MaxTermLen)

-----------------------------------------------------------------------------
(* parse_csv, get_all_tags, main *)

\* the two stats spans while the page has not been opened
NoStats == [count |-> 0, plural |-> TRUE]

NoFiltersText == [none |-> TRUE, size |-> 0, plural |-> FALSE, names |-> <<>>]

\* the row test without the check of the drill name
RowAcceptedAnyName(row) == Len(row) >= 5

RowAccepted(row) == Len(row) >= 5 /\ strip(row[1]) # <<>>

\* tags kept as the two lists in file order: no set(), no sorted()
MakeDrillTagsAsListed(row) ==
    LET drill_name == strip(row[1])
        theme == IF Len(row) > 2 THEN strip(row[3]) ELSE <<>>
        sub_category == IF Len(row) > 3 THEN strip(row[4]) ELSE <<>>
        link == IF Len(row) > 4 THEN strip(row[5]) ELSE <<>>
        themes == IF theme # <<>> THEN StripNonEmpty(theme) ELSE <<>>
        sub_categories ==
            IF sub_category # <<>> THEN StripNonEmpty(sub_category) ELSE <<>>
    IN [name |-> drill_name,
        link |-> link,
        tags |-> themes \o sub_categories,
        theme |-> theme,
        sub_category |-> sub_category]

MakeDrill(row) ==
    LET drill_name == strip(row[1])
        theme == IF Len(row) > 2 THEN strip(row[3]) ELSE <<>>
        sub_category == IF Len(row) > 3 THEN strip(row[4]) ELSE <<>>
        link == IF Len(row) > 4 THEN strip(row[5]) ELSE <<>>
        themes == IF theme # <<>> THEN StripNonEmpty(theme) ELSE <<>>
        sub_categories ==
            IF sub_category # <<>> THEN StripNonEmpty(sub_category) ELSE <<>>
        tags == Elems(themes) \cup Elems(sub_categories)
    IN [name |-> drill_name,
        link |-> link,
        tags |-> sorted(tags),
        theme |-> theme,
        sub_category |-> sub_category]

RECURSIVE TagUnion(_)
TagUnion(ds) ==
    IF ds = <<>> THEN {} ELSE Elems(ds[1].tags) \cup TagUnion(Tail(ds))

\* all_tags = set(drill['tags']) in place of all_tags.update(drill['tags'])
get_all_tagsOfLastDrill(ds) ==
    IF ds = <<>> THEN <<>> ELSE sorted(Elems(ds[Len(ds)].tags))

get_all_tags(ds) == sorted(TagUnion(ds))

\* hockey_drills.html as an earlier run over another CSV file left it
EarlierOutput ==
    LET earlier == <<MakeDrill(HeaderRow)>>
    IN <<[drills |-> earlier, allTags |-> get_all_tags(earlier)]>>

Init ==
    /\ csv_exists \in BOOLEAN
    /\ csv_rows \in CsvFiles
    /\ pc = "main"
    /\ idx = 1
    /\ drills = <<>>
    /\ all_tags = <<>>
    /\ output_file \in {NoFile, EarlierOutput}
    /\ stdout = <<>>
    /\ activeFilters = <<>>
    /\ searchTerm = <<>>
    /\ searchBoxValue = <<>>
    /\ activeTagEls = {}
    /\ gridDisplay = ""
    /\ noResultsDisplay = ""
    /\ gridItems = <<>>
    /\ resultsCount = NoStats
    /\ activeFiltersSpan = NoFiltersText

\* main without the return after the error line: it goes on to read the file
MainMissingGoesOn ==
    /\ pc = "main"
    /\ ~csv_exists
    /\ stdout' = Append(stdout, "Error: CSV file not found!")
    /\ pc' = "parse_header"
    /\ UNCHANGED <<extractVars, pageVars>>

\* main: the CSV file is missing
MainMissing ==
    /\ pc = "main"
    /\ ~csv_exists
    /\ stdout' = Append(stdout, "Error: CSV file not found!")
    /\ pc' = "exit"
    /\ UNCHANGED <<extractVars, pageVars>>

\* main: the CSV file exists, parse_csv opens it
MainRead ==
    /\ pc = "main"
    /\ csv_exists
    /\ stdout' = Append(stdout, "Reading drills from")
    /\ pc' = "parse_header"
    /\ UNCHANGED <<extractVars, pageVars>>

\* next(reader): StopIteration on a file without rows
SkipHeader ==
    /\ pc = "parse_header"
    /\ IF csv_rows = <<>>
       THEN pc' = "raised" /\ idx' = idx
       ELSE pc' = "parse_rows" /\ idx' = 2
    /\ UNCHANGED <<csv_exists, csv_rows, drills, all_tags, output_file, stdout,
                   pageVars>>

\* one iteration of "for row in reader"
ParseRow ==
    /\ pc = "parse_rows"
    /\ idx <= Len(csv_rows)
    /\ drills' = IF RowAccepted(csv_rows[idx])
                 THEN Append(drills, MakeDrill(csv_rows[idx]))
                 ELSE drills
    /\ idx' = idx + 1
    /\ UNCHANGED <<csv_exists, csv_rows, pc, all_tags, output_file, stdout,
                   pageVars>>

\* parse_csv returns, main calls get_all_tags
GetAllTags ==
    /\ pc = "parse_rows"
    /\ idx > Len(csv_rows)
    /\ all_tags' = get_all_tags(drills)
    /\ stdout' = stdout \o <<"Found drills", "Extracting tags...",
                             "Found unique tags">>
    /\ pc' = "generate"
    /\ UNCHANGED <<csv_exists, csv_rows, idx, drills, output_file, pageVars>>

\* generate_html embeds drills and all_tags, main writes the file
WriteHtml ==
    /\ pc = "generate"
    /\ output_file' = <<[drills |-> drills, allTags |-> all_tags]>>
    /\ stdout' = stdout \o <<"Generating HTML...", "Writing HTML to",
                             "Successfully created">>
    /\ pc' = "done"
    /\ UNCHANGED <<csv_exists, csv_rows, idx, drills, all_tags, pageVars>>

-----------------------------------------------------------------------------
(* The generated page *)

\* const drills, const allTags: the payload embedded in the file
pageDrills == output_file[1].drills

allTags == output_file[1].allTags

matchesSearch(drill, term) ==
    \/ term = <<>>
    \/ includes(toLowerCase(drill.name), term)
    \/ \E i \in 1..Len(drill.tags) : includes(toLowerCase(drill.tags[i]), term)

\* Array.prototype.includes on drill.tags
tagsInclude(drill, filter) == \E j \in 1..Len(drill.tags) : drill.tags[j] = filter

\* some() in place of every(): selected tags widen by union
matchesTagsUnion(drill, filters) ==
    \/ Len(filters) = 0
    \/ \E i \in 1..Len(filters) : tagsInclude(drill, filters[i])

matchesTags(drill, filters) ==
    \/ Len(filters) = 0
    \/ \A i \in 1..Len(filters) : tagsInclude(drill, filters[i])

\* || in place of && between the two axes
drillShownEither(drill, term, filters) ==
    matchesSearch(drill, term) \/ matchesTags(drill, filters)

drillShown(drill, term, filters) ==
    matchesSearch(drill, term) /\ matchesTags(drill, filters)

filteredDrills(term, filters) ==
    SelectSeq(pageDrills, LAMBDA drill : drillShown(drill, term, filters))

\* `Showing ${count} drill${count !== 1 ? 's' : ''}`
StatsText(count) == [count |-> count, plural |-> count # 1]

\* `${size} filter${size !== 1 ? 's' : ''} active: ${[...activeFilters].join(', ')}`
\* or 'No filters active'
FiltersText(filters) ==
    IF Len(filters) > 0
    THEN [none |-> FALSE, size |-> Len(filters), plural |-> Len(filters) # 1,
          names |-> join(filters, <<",", " ">>)]
    ELSE [none |-> TRUE, size |-> 0, plural |-> FALSE, names |-> <<>>]

\* the count is written, the summary of active filters is not
updateStatsCountOnly(count, filters) ==
    /\ resultsCount' = StatsText(count)
    /\ activeFiltersSpan' = activeFiltersSpan

updateStats(count, filters) ==
    /\ resultsCount' = StatsText(count)
    /\ activeFiltersSpan' = FiltersText(filters)

\* the else branch without noResults.style.display = 'none'
renderDrillsNoResultsStays(term, filters) ==
    LET filtered == filteredDrills(term, filters)
    IN /\ IF Len(filtered) = 0
          THEN /\ gridDisplay' = "none"
               /\ noResultsDisplay' = "block"
               /\ gridItems' = gridItems
          ELSE /\ gridDisplay' = "block"
               /\ noResultsDisplay' = noResultsDisplay
               /\ gridItems' = filtered
       /\ updateStats(Len(filtered), filters)

renderDrills(term, filters) ==
    LET filtered == filteredDrills(term, filters)
    IN /\ IF Len(filtered) = 0
          THEN /\ gridDisplay' = "none"
               /\ noResultsDisplay' = "block"
               /\ gridItems' = gridItems
          ELSE /\ gridDisplay' = "block"
               /\ noResultsDisplay' = "none"
               /\ gridItems' = filtered
       /\ updateStats(Len(filtered), filters)

updateTagStyles(filters) ==
    activeTagEls' = {tag \in Elems(allTags) : tag \in Elems(filters)}

\* the script runs: init() is renderTags, renderDrills, setupEventListeners
PageInit ==
    /\ pc = "done"
    /\ output_file # NoFile
    /\ pc' = "page"
    /\ renderDrills(searchTerm, activeFilters)
    /\ UNCHANGED <<extractVars, stdout, activeFilters, searchTerm, searchBoxValue,
                   activeTagEls>>

\* a listener that also deselects every tag
SetSearchResetsTags(value) ==
    /\ pc = "page"
    /\ searchBoxValue' = value
    /\ searchTerm' = toLowerCase(value)
    /\ activeFilters' = <<>>
    /\ updateTagStyles(activeFilters')
    /\ renderDrills(searchTerm', activeFilters')
    /\ UNCHANGED <<extractVars, stdout, pc>>

\* the listener without toLowerCase()
SetSearchAsTyped(value) ==
    /\ pc = "page"
    /\ searchBoxValue' = value
    /\ searchTerm' = value
    /\ renderDrills(searchTerm', activeFilters)
    /\ UNCHANGED <<extractVars, stdout, pc, activeFilters, activeTagEls>>

\* the 'input' listener of searchBox
SetSearch(value) ==
    /\ pc = "page"
    /\ searchBoxValue' = value
    /\ searchTerm' = toLowerCase(value)
    /\ renderDrills(searchTerm', activeFilters)
    /\ UNCHANGED <<extractVars, stdout, pc, activeFilters, activeTagEls>>

\* add() on both branches: a second click leaves the tag selected
toggledAdditive(filters, tag) ==
    IF tag \in Elems(filters) THEN filters ELSE Append(filters, tag)

\* Set.prototype.has / delete / add: a Set keeps insertion order
toggled(filters, tag) ==
    IF tag \in Elems(filters)
    THEN SelectSeq(filters, LAMBDA f : f # tag)
    ELSE Append(filters, tag)

toggleFilter(tag) ==
    /\ activeFilters' = toggled(activeFilters, tag)
    /\ updateTagStyles(activeFilters')
    /\ renderDrills(searchTerm, activeFilters')

\* the character U+0008, which the escape \b stands for in a JS string literal
Backspace == "U+0008"

\* the character a backslash followed by c stands for in a JS string literal
JsEscaped(c) == IF c = "b" THEN Backspace ELSE c

\* onclick="toggleFilter('${tag}')": the tag is put between the apostrophes
\* as it is, so JS reads it as the body of a string literal. An apostrophe
\* that no backslash escapes ends the literal early and a backslash at the
\* end escapes the closing apostrophe: the attribute then does not compile
\* and the click does nothing.
RECURSIVE OnclickCompiles(_)
OnclickCompiles(tag) ==
    IF tag = <<>> THEN TRUE
    ELSE IF tag[1] = "\\"
         THEN Len(tag) >= 2 /\ OnclickCompiles(SubSeq(tag, 3, Len(tag)))
    ELSE IF tag[1] = "'" THEN FALSE
    ELSE OnclickCompiles(Tail(tag))

\* the string toggleFilter receives: the value of the literal '${tag}'
RECURSIVE OnclickArgument(_)
OnclickArgument(tag) ==
    IF tag = <<>> THEN <<>>
    ELSE IF tag[1] = "\\"
         THEN <<JsEscaped(tag[2])>> \o OnclickArgument(SubSeq(tag, 3, Len(tag)))
    ELSE <<tag[1]>> \o OnclickArgument(Tail(tag))

\* renderTags: one .tag element per entry of allTags
TagControls == IF output_file = NoFile THEN {} ELSE 1..Len(allTags)

\* a click on the .tag element that renderTags made for allTags[i]
ClickTag(i) ==
    /\ pc = "page"
    /\ IF OnclickCompiles(allTags[i])
       THEN toggleFilter(OnclickArgument(allTags[i]))
       ELSE UNCHANGED <<activeFilters, activeTagEls, gridDisplay,
                        noResultsDisplay, gridItems, resultsCount,
                        activeFiltersSpan>>
    /\ UNCHANGED <<extractVars, stdout, pc, searchTerm, searchBoxValue>>

\* the button without searchTerm = '' and searchBox.value = ''
clearAllFiltersTagsOnly ==
    /\ pc = "page"
    /\ activeFilters' = <<>>
    /\ updateTagStyles(activeFilters')
    /\ renderDrills(searchTerm, activeFilters')
    /\ UNCHANGED <<extractVars, stdout, pc, searchTerm, searchBoxValue>>

\* the "Clear All Filters" button
clearAllFilters ==
    /\ pc = "page"
    /\ activeFilters' = <<>>
    /\ searchTerm' = <<>>
    /\ searchBoxValue' = <<>>
    /\ updateTagStyles(activeFilters')
    /\ renderDrills(searchTerm', activeFilters')
    /\ UNCHANGED <<extractVars, stdout, pc>>

Next ==
    \/ MainMissing
    \/ MainRead
    \/ SkipHeader
    \/ ParseRow
    \/ GetAllTags
    \/ WriteHtml
    \/ PageInit
    \/ \E value \in SearchInputs : SetSearch(value)
    \/ \E i \in TagControls : ClickTag(i)
    \/ clearAllFilters

Spec == Init /\ [][Next]_vars

-----------------------------------------------------------------------------
(* Properties *)

PageLoaded == pc = "page"

\* the records the page lists: none while drillGrid is hidden
Shown == IF gridDisplay = "block" THEN gridItems ELSE <<>>

\* the same letter, whatever the case
SameLetter(c, d) == c = d \/ {c, d} \in {{"A", "a"}, {"B", "b"}}

\* sub occurs in s as a case-insensitive substring
ContainsIgnoringCase(s, sub) ==
    \E off \in 0..(Len(s) - Len(sub)) :
        \A i \in 1..Len(sub) : SameLetter(s[off + i], sub[i])

\* every selected tag is one of the record's tags
HasAllTags(drill, tagSet) == tagSet \subseteq Elems(drill.tags)

\* the typed term is empty or occurs in the name or in a tag, ignoring case
FoundBySearch(drill, typed) ==
    \/ typed = <<>>
    \/ ContainsIgnoringCase(drill.name, typed)
    \/ \E tag \in Elems(drill.tags) : ContainsIgnoringCase(tag, typed)

\* C1: a record matches the tag filter iff no tag is selected or every
\* selected tag is, exactly as written, one of the record's tags; several
\* selected tags narrow by intersection.
C1_TagFilterIsIntersection ==
    PageLoaded =>
        \A k \in 1..Len(pageDrills) :
            /\ matchesTags(pageDrills[k], activeFilters)
                   <=> (Elems(activeFilters) = {}
                        \/ HasAllTags(pageDrills[k], Elems(activeFilters)))
            /\ (\E j \in 1..Len(Shown) : Shown[j] = pageDrills[k])
                   => HasAllTags(pageDrills[k], Elems(activeFilters))

\* two tags are selected; one record carries both and is listed, another
\* carries only one of them and is not
C1_Witness ==
    /\ PageLoaded
    /\ Len(activeFilters) = 2
    /\ searchTerm = <<>>
    /\ \E k \in 1..Len(pageDrills) :
           /\ HasAllTags(pageDrills[k], Elems(activeFilters))
           /\ Shown = <<pageDrills[k]>>
    /\ \E k \in 1..Len(pageDrills) :
           /\ ~HasAllTags(pageDrills[k], Elems(activeFilters))
           /\ Elems(pageDrills[k].tags) \cap Elems(activeFilters) # {}

\* C2: with the term typed into the search box, a record matches the search
\* axis iff the term is empty or is a case-insensitive substring of the
\* record's name or of one of its tags.
C2_SearchIsCaseInsensitiveSubstring ==
    PageLoaded =>
        \A k \in 1..Len(pageDrills) :
            matchesSearch(pageDrills[k], searchTerm)
                <=> FoundBySearch(pageDrills[k], searchBoxValue)

\* an upper-case term finds a record through a lower-case name or tag, and
\* another record is not found
C2_Witness ==
    /\ PageLoaded
    /\ searchBoxValue # <<>>
    /\ searchBoxValue # searchTerm
    /\ \E k \in 1..Len(pageDrills) :
           /\ matchesSearch(pageDrills[k], searchTerm)
           /\ ~includes(pageDrills[k].name, searchBoxValue)
           /\ \A i \in 1..Len(pageDrills[k].tags) :
                  ~includes(pageDrills[k].tags[i], searchBoxValue)
    /\ \E k \in 1..Len(pageDrills) : ~matchesSearch(pageDrills[k], searchTerm)

\* C3: the listed records are exactly those matching both axes, and they are
\* the result of the tag filter followed by the search filter as well as of
\* the search filter followed by the tag filter.
C3_ShownIffBothAxes ==
    PageLoaded =>
        LET bySearch(ds) ==
                SelectSeq(ds, LAMBDA d : FoundBySearch(d, searchBoxValue))
            byTags(ds) ==
                SelectSeq(ds, LAMBDA d : Elems(activeFilters) = {}
                                         \/ HasAllTags(d, Elems(activeFilters)))
        IN /\ Shown = bySearch(byTags(pageDrills))
           /\ Shown = byTags(bySearch(pageDrills))
           /\ \A k \in 1..Len(pageDrills) :
                  (\E j \in 1..Len(Shown) : Shown[j] = pageDrills[k])
                      <=> (/\ matchesSearch(pageDrills[k], searchTerm)
                           /\ matchesTags(pageDrills[k], activeFilters))

\* a record is listed while another matches the search term but lacks a
\* selected tag
C3_Witness ==
    /\ PageLoaded
    /\ Shown # <<>>
    /\ searchTerm # <<>>
    /\ activeFilters # <<>>
    /\ \E k \in 1..Len(pageDrills) :
           /\ matchesSearch(pageDrills[k], searchTerm)
           /\ ~matchesTags(pageDrills[k], activeFilters)

\* a row with at least 5 fields whose first field is not blank
WellFormed(row) ==
    Len(row) >= 5 /\ \E i \in 1..Len(row[1]) : row[1][i] # " "

\* the positions, in file order, of the well-formed rows among rows 2..n
RECURSIVE WellFormedUpTo(_)
WellFormedUpTo(n) ==
    IF n < 2 THEN <<>>
    ELSE IF WellFormed(csv_rows[n]) THEN Append(WellFormedUpTo(n - 1), n)
    ELSE WellFormedUpTo(n - 1)

\* the rows the reader has passed
RowsRead == WellFormedUpTo(idx - 1)

ParseReturned == pc \in {"generate", "done", "page"}

\* a list of strings in strictly ascending order
StrictlyAscending(seq) ==
    \A i \in 1..(Len(seq) - 1) : StrLess(seq[i], seq[i + 1])

\* the trimmed, non-empty pieces of a comma-separated text
Pieces(text) ==
    {strip(piece) : piece \in Elems(split(text, ","))} \ {<<>>}

\* C4: parse_csv discards the header row and makes one record, in file
\* order, for each later row that has at least 5 fields and a non-blank first
\* field, and none for any other row; a malformed row does not end the loop.
C4_OneRecordPerWellFormedRow ==
    /\ Len(drills) = Len(RowsRead)
    /\ \A k \in 1..Len(drills) :
           LET row == csv_rows[RowsRead[k]]
           IN /\ drills[k].name = strip(row[1])
              /\ drills[k].theme = strip(row[3])
              /\ drills[k].sub_category = strip(row[4])
              /\ drills[k].link = strip(row[5])
    /\ ParseReturned => idx = Len(csv_rows) + 1

\* parse_csv has returned one record for a file whose header row is well
\* formed and whose first data row is malformed and second is not
C4_Witness ==
    /\ pc = "generate"
    /\ Len(csv_rows) = 3
    /\ WellFormed(csv_rows[1])
    /\ ~WellFormed(csv_rows[2])
    /\ Len(csv_rows[2]) >= 5
    /\ WellFormed(csv_rows[3])
    /\ Len(drills) = 1

\* C5: a record's tags are the trimmed non-empty comma-separated pieces of
\* the row's theme and sub-category fields taken together, without
\* duplicates and in ascending order, and the record's stored theme and
\* sub_category texts give the same tags again.
C5_TagsSortedUnionOfPieces ==
    \A k \in 1..Len(drills) :
        LET row == csv_rows[RowsRead[k]]
        IN /\ Elems(drills[k].tags) = Pieces(row[3]) \cup Pieces(row[4])
           /\ StrictlyAscending(drills[k].tags)
           /\ Elems(drills[k].tags)
                  = Pieces(drills[k].theme) \cup Pieces(drills[k].sub_category)

\* a record whose fields name a tag twice and in descending order, with
\* untrimmed pieces
C5_Witness ==
    \E k \in 1..Len(drills) :
        LET row == csv_rows[RowsRead[k]]
            listed == StripNonEmpty(row[3]) \o StripNonEmpty(row[4])
        IN /\ Len(drills[k].tags) >= 2
           /\ Len(listed) > Len(drills[k].tags)
           /\ ~StrictlyAscending(listed)
           /\ row[3] # strip(row[3])
           /\ Ord(drills[k].tags[1][1]) < Ord("a")
           /\ Ord(drills[k].tags[2][1]) >= Ord("a")

\* C6: get_all_tags returns the tags of all records together, without
\* duplicates and in ascending order; it is empty when no record has a tag.
C6_VocabularyIsSortedUnion ==
    ParseReturned =>
        /\ StrictlyAscending(all_tags)
        /\ Elems(all_tags) = UNION {Elems(drills[k].tags) : k \in 1..Len(drills)}

\* two records with overlapping tags, each lacking a tag of the other
C6_Witness ==
    /\ ParseReturned
    /\ Len(drills) = 2
    /\ Elems(drills[1].tags) \cap Elems(drills[2].tags) # {}
    /\ Elems(drills[1].tags) \ Elems(drills[2].tags) # {}
    /\ Elems(drills[2].tags) \ Elems(drills[1].tags) # {}
    /\ Len(all_tags) > Len(drills[1].tags)

\* the records that match the typed term and carry every selected tag
Matching ==
    SelectSeq(pageDrills,
              LAMBDA d : /\ FoundBySearch(d, searchBoxValue)
                         /\ HasAllTags(d, Elems(activeFilters)))

\* C7: toggleFilter(t) removes t from the active tag set if it is there and
\* adds it if it is not, so two toggles of the same tag in a row leave the
\* active tag set and the matching records as they were.
C7_ToggleTwiceRestores ==
    /\ [][\A i \in TagControls :
              (ClickTag(i) /\ OnclickCompiles(allTags[i]))
                  => LET t == OnclickArgument(allTags[i])
                     IN Elems(activeFilters')
                            = IF t \in Elems(activeFilters)
                              THEN Elems(activeFilters) \ {t}
                              ELSE Elems(activeFilters) \cup {t}]_vars
    /\ [](PageLoaded =>
              \A i \in {k \in TagControls : OnclickCompiles(allTags[k])} :
                  LET t == OnclickArgument(allTags[i])
                      once == toggled(activeFilters, t)
                      twice == toggled(once, t)
                  IN /\ Elems(twice) = Elems(activeFilters)
                     /\ filteredDrills(searchTerm, twice)
                            = filteredDrills(searchTerm, activeFilters))

\* two tags are selected, and toggling the first one twice would restore the
\* set but not the order of selection
C7_Witness ==
    /\ PageLoaded
    /\ Len(activeFilters) = 2
    /\ \E i \in TagControls : allTags[i] \notin Elems(activeFilters)
    /\ LET t == activeFilters[1]
       IN /\ toggled(activeFilters, t) = <<activeFilters[2]>>
          /\ toggled(toggled(activeFilters, t), t) # activeFilters
    /\ Shown # <<>>
    /\ Shown # pageDrills

\* C8: the clear action empties the search term and the active tag set in
\* one step, and whenever both are empty every record is listed.
C8_ClearResetsBothAxes ==
    /\ [][clearAllFilters => (searchTerm' = <<>> /\ activeFilters' = <<>>)]_vars
    /\ [](PageLoaded /\ searchTerm = <<>> /\ activeFilters = <<>>
              => Shown = pageDrills)

\* both axes are empty and both records of the page are listed
C8_Witness ==
    /\ PageLoaded
    /\ searchTerm = <<>>
    /\ searchBoxValue = <<>>
    /\ activeFilters = <<>>
    /\ activeTagEls = {}
    /\ Len(pageDrills) = 2
    /\ Shown = pageDrills

\* C9: once the page has rendered, "no results" is displayed and the listing
\* hidden iff no record matches; otherwise the listing is displayed, holds
\* exactly the matching records, and "no results" is hidden.
C9_ExactlyOnePresentation ==
    PageLoaded =>
        /\ Len(Matching) = 0
               => (noResultsDisplay = "block" /\ gridDisplay = "none")
        /\ Len(Matching) > 0
               => (/\ noResultsDisplay = "none"
                   /\ gridDisplay = "block"
                   /\ gridItems = Matching)

\* nothing matches: "no results" is displayed over a hidden listing that
\* still holds the records of an earlier render
C9_Witness ==
    /\ PageLoaded
    /\ Len(Matching) = 0
    /\ noResultsDisplay = "block"
    /\ gridDisplay = "none"
    /\ gridItems # <<>>

\* the names of a summary: the texts between its ", " separators
SummaryNames(text) ==
    LET pieces == split(text, ",")
    IN [i \in 1..Len(pieces) |->
            IF i > 1 /\ pieces[i] # <<>> /\ pieces[i][1] = " "
            THEN Tail(pieces[i])
            ELSE pieces[i]]

\* C10: once the page has rendered, the result count is the number of
\* matching records and the summary names exactly the selected tags, or says
\* that no filter is active when none is selected.
C10_StatsAreCurrent ==
    PageLoaded =>
        /\ resultsCount.count = Len(Matching)
        /\ activeFiltersSpan.none <=> Elems(activeFilters) = {}
        /\ ~activeFiltersSpan.none =>
               /\ SummaryNames(activeFiltersSpan.names) = activeFilters
               /\ activeFiltersSpan.size = Cardinality(Elems(activeFilters))

\* two selected tags and a search term leave one of two records
C10_Witness ==
    /\ PageLoaded
    /\ Len(activeFilters) = 2
    /\ searchTerm # <<>>
    /\ Len(pageDrills) = 2
    /\ resultsCount = [count |-> 1, plural |-> FALSE]
    /\ activeFiltersSpan.size = 2

\* C11: with the CSV file missing, main prints the error and stops: no row is
\* read, no tag list and no page are made, and the output file is neither
\* created nor overwritten; the output file changes only on a run whose
\* input exists.
C11_MissingInputWritesNothing ==
    /\ [](~csv_exists /\ pc # "main" =>
              /\ pc = "exit"
              /\ stdout = <<"Error: CSV file not found!">>
              /\ idx = 1
              /\ drills = <<>>
              /\ all_tags = <<>>
              /\ ~ENABLED Next)
    /\ [][output_file' # output_file => csv_exists]_vars

\* main has stopped on a missing CSV file and the page of an earlier run is
\* still in place
C11_Witness ==
    /\ ~csv_exists
    /\ pc = "exit"
    /\ stdout = <<"Error: CSV file not found!">>
    /\ output_file = EarlierOutput
    /\ csv_rows # <<>>

\* C12: typing a search term leaves the active tag set as it is; a toggle of
\* tag t leaves the search term and the membership of every other tag as
\* they are; and no event of the page changes the records, their tags or the
\* tag vocabulary.
C12_AxesIndependentDataReadOnly ==
    /\ [][(\E value \in SearchInputs : SetSearch(value))
              => activeFilters' = activeFilters]_vars
    /\ [][\A i \in TagControls :
              ClickTag(i) =>
                  /\ searchTerm' = searchTerm
                  /\ searchBoxValue' = searchBoxValue
                  /\ IF OnclickCompiles(allTags[i])
                     THEN LET t == OnclickArgument(allTags[i])
                          IN Elems(activeFilters') \ {t}
                                 = Elems(activeFilters) \ {t}
                     ELSE activeFilters' = activeFilters]_vars
    /\ [][PageLoaded =>
              /\ output_file' = output_file
              /\ drills' = drills
              /\ all_tags' = all_tags]_vars

\* a search term and two tags are in force over the two records that were
\* extracted
C12_Witness ==
    /\ PageLoaded
    /\ searchTerm # <<>>
    /\ Len(activeFilters) = 2
    /\ Len(pageDrills) = 2
    /\ pageDrills = drills
    /\ allTags = all_tags
    /\ Shown # <<>>

\* C13: in every state of the page the active tag set is a subset of the tag
\* vocabulary: no sequence of search, toggle and clear events selects a tag
\* that is not in allTags.
C13_ActiveTagsWithinVocabulary ==
    PageLoaded => Elems(activeFilters) \subseteq Elems(allTags)

====
